---- MODULE Spec2Model ----
(***************************************************************************)
(* Model of the story backend: the job lifecycle (create_story,            *)
(* generate_story_task, get_job_status) and story assembly                 *)
(* (get_complete_story, build_complete_story_tree) over the persistent     *)
(* store (story_jobs, stories, story_nodes).                               *)
(*                                                                         *)
(* Python's None is the empty tuple NULL, a present value v is <<v>>.      *)
(***************************************************************************)
EXTENDS Integers, Sequences, FiniteSets, TLC

\* ------------------------------------------------------------------ bounds
MaxJobs == 2        \* create_story calls per behaviour
MaxInitStories == 2 \* stories rows drawn by AssembleInit
MaxInitNodes == 3   \* story_nodes rows drawn by AssembleInit

NULL == <<>>
Some(v) == <<v>>
Val(o) == o[1]

Themes == {"space pirates"}
\* the session_id cookie of a request: absent, empty, or a known session
Cookies == {NULL, Some(""), Some("sess")}
\* the requests of Spec come from clients that hold no cookie yet
FirstVisit == {NULL}

VARIABLES
    jobs,       \* table story_jobs: sequence of rows, row.id = its position
    stories,    \* table stories
    nodes,      \* table story_nodes
    tasks,      \* the generate_story_task invocations, in scheduling order
    uuids,      \* number of uuid.uuid4() values drawn and in use
    observed,   \* a poller's view of one job: the job_id it polls (that of
                \* its first successful poll) and the statuses its successive
                \* polls returned, a status repeated by the next poll recorded once
    response    \* the HTTP response the last step produced; NoResponse when
                \* that step was a background task's

vars == <<jobs, stories, nodes, tasks, uuids, observed, response>>

\* op: the handler; arg: its path or body parameter; cookie: the session_id
\* cookie the request presented to create_story; set_cookie: the session_id
\* cookie the response sets, if any
NoResponse ==
    [op |-> "none", arg |-> NULL, code |-> 0, cookie |-> NULL,
     set_cookie |-> NULL, body |-> [detail |-> "none"]]

\* ------------------------------------------------------------------ helpers
\* db.query(X).filter(cond).first(): the first matching row, or None; hits are
\* the positions of the rows the filter keeps
First(rows, hits) ==
    IF hits = {} THEN NULL
    ELSE Some(rows[CHOOSE i \in hits : \A k \in hits : i <= k])

\* the query without its filter: every row of the table
AllUnfiltered(rows, hits) == rows

\* db.query(X).filter(cond).all(): the matching rows, in table order
All(rows, hits) ==
    [k \in 1..Cardinality(hits) |->
        rows[CHOOSE i \in hits : Cardinality({j \in hits : j < i}) = k - 1]]

\* datetime.now() and the server default func.now(): a timestamp. The model
\* keeps no calendar: every timestamp is the one value Now, distinct from NULL.
Now == "now"

\* one identifier computed once and handed to every caller
UuidRepeated(n) == "uuid-0"

\* str(uuid.uuid4()): the n-th value drawn, different from every other one
Uuid(n) == "uuid-" \o ToString(n)

\* ------------------------------------------------------------------ rows
\* StoryJob(job_id=..., session_id=..., theme=..., status="pending") once inserted:
\* id is the autoincremented key, created_at the server default, the rest NULL
NewStatus == "pending"

StoryJob(id, job_id, session_id, theme, now) ==
    [id |-> id, job_id |-> job_id, session_id |-> session_id, theme |-> theme,
     status |-> NewStatus, story_id |-> NULL, error |-> NULL,
     created_at |-> now, completed_at |-> NULL]

\* StoryJobResponse with from_attributes: the six fields of the row it exposes
StoryJobResponse(job) ==
    [job_id |-> job.job_id, status |-> job.status, created_at |-> job.created_at,
     story_id |-> job.story_id, completed_at |-> job.completed_at,
     error |-> job.error]

\* ------------------------------------------------------------------ create_story
\* a new session minted whatever cookie the request presents
get_session_id_always_new(c, n) == Uuid(n)

\* get_session_id: the cookie when it is present and non-empty, else a new uuid
get_session_id(c, n) == IF c = NULL \/ Val(c) = "" THEN Uuid(n) ELSE Val(c)
\* how many uuid4() calls get_session_id makes
SessionDraws(c) == IF c = NULL \/ Val(c) = "" THEN 1 ELSE 0

\* the attributes generate_story_task assigns on its in-memory StoryJob
Mem(job) ==
    [status |-> job.status, story_id |-> job.story_id, error |-> job.error,
     completed_at |-> job.completed_at]
NoMem == [status |-> "", story_id |-> NULL, error |-> NULL, completed_at |-> NULL]

\* a task put back on the queue when it ends, to run once more
EndedRequeued(task, pc) ==
    [task EXCEPT !.pc = "ready", !.row = 0, !.mem = NoMem, !.sessOK = TRUE,
                 !.story = NULL, !.exc = NULL]

\* a task that has returned or raised: its locals and its session are gone
Ended(task, pc) ==
    [task EXCEPT !.pc = pc, !.row = 0, !.mem = NoMem, !.sessOK = TRUE,
                 !.story = NULL, !.exc = NULL]

\* the task called inline instead of added to the background tasks: generation
\* is under way when the response is produced
TaskRunInline(job_id, session_id, theme) ==
    [job_id |-> job_id, session_id |-> session_id, theme |-> theme,
     pc |-> "generating", row |-> 0, mem |-> NoMem, sessOK |-> TRUE,
     story |-> NULL, exc |-> NULL]

\* background_tasks.add_task(generate_story_task, job_id, session_id, theme):
\* the task runs after the response has been sent
Task(job_id, session_id, theme) ==
    [job_id |-> job_id, session_id |-> session_id, theme |-> theme,
     pc |-> "ready", row |-> 0, mem |-> NoMem, sessOK |-> TRUE, story |-> NULL,
     exc |-> NULL]

create_story(c, theme) ==
    LET session_id == get_session_id(c, uuids + 1)
        job_id == Uuid(uuids + SessionDraws(c) + 1)
        job == StoryJob(Len(jobs) + 1, job_id, session_id, theme, Now)
    IN /\ Len(tasks) < MaxJobs
       /\ uuids' = uuids + SessionDraws(c) + 1
       /\ jobs' = Append(jobs, job)
       /\ tasks' = Append(tasks, Task(job_id, session_id, theme))
       /\ observed' = observed
       /\ response' = [op |-> "create_story", arg |-> Some(theme), code |-> 200,
                       cookie |-> c, set_cookie |-> Some(session_id),
                       body |-> StoryJobResponse(job)]
       /\ UNCHANGED <<stories, nodes>>

\* create_story when the commit of line 51 raises: no row is inserted, line 54
\* is not reached, and the framework answers 500 without the cookie. The uuids
\* drawn are kept nowhere, so the count of those in use stays.
create_story_fails(c, theme) ==
    /\ Len(tasks) < MaxJobs
    /\ response' = [op |-> "create_story", arg |-> Some(theme), code |-> 500,
                    cookie |-> c, set_cookie |-> NULL,
                    body |-> [detail |-> "OperationalError"]]
    /\ UNCHANGED <<jobs, stories, nodes, tasks, uuids, observed>>

\* ------------------------------------------------------------------ story generation
\* StoryGenerator.generate_story(db, session_id, theme): the trees it may build.
\* Each entry is a node in insertion order; an option's to is the position of
\* its destination within the tree.
Shapes == {"leaf", "fork"}

Tree(shape) ==
    CASE shape = "leaf" ->
           << [is_root |-> TRUE, is_ending |-> TRUE, is_winning_ending |-> TRUE,
               options |-> <<>>] >>
      [] shape = "fork" ->
           << [is_root |-> FALSE, is_ending |-> TRUE, is_winning_ending |-> FALSE,
               options |-> <<>>],
              [is_root |-> FALSE, is_ending |-> TRUE, is_winning_ending |-> TRUE,
               options |-> <<>>],
              [is_root |-> TRUE, is_ending |-> FALSE, is_winning_ending |-> FALSE,
               options |-> << [text |-> "left", to |-> 1], [text |-> "right", to |-> 2] >>] >>

\* the stories row of a generated story
Story(id, session_id, theme, now) ==
    [id |-> id, title |-> theme, session_id |-> session_id, created_at |-> now]

\* the story_nodes rows of a generated tree, keyed from base + 1 on
StoryNodes(story_id, shape, base) ==
    [k \in DOMAIN Tree(shape) |->
        [id |-> base + k, story_id |-> story_id, content |-> "text",
         is_root |-> Tree(shape)[k].is_root,
         is_ending |-> Tree(shape)[k].is_ending,
         is_winning_ending |-> Tree(shape)[k].is_winning_ending,
         options |-> [o \in DOMAIN Tree(shape)[k].options |->
                        [text |-> Tree(shape)[k].options[o].text,
                         node_id |-> base + Tree(shape)[k].options[o].to]]]]

\* ------------------------------------------------------------------ generate_story_task
\* an UPDATE without its WHERE: every row takes the in-memory attributes
PersistEveryRow(rows, i, mem) ==
    [k \in DOMAIN rows |->
        [rows[k] EXCEPT !.status = mem.status, !.story_id = mem.story_id,
                        !.error = mem.error, !.completed_at = mem.completed_at]]

\* db.commit() of the task's session: the row takes the in-memory attributes
Persist(rows, i, mem) ==
    [rows EXCEPT ![i] = [@ EXCEPT !.status = mem.status, !.story_id = mem.story_id,
                                  !.error = mem.error,
                                  !.completed_at = mem.completed_at]]

\* the status left as it was until generation is over
ProcessingNotSet == "pending"

\* the statuses the task assigns
Processing == "processing"
Completed == "completed"
Failed == "Failed"

\* the task without the test of line 71: on an absent job, job.status raises
\* AttributeError in the try and again in the except block, and leaves the task
BeginNoCheck(t, ok) ==
    LET job == First(jobs, {i \in DOMAIN jobs : jobs[i].job_id = tasks[t].job_id}) IN
    /\ tasks[t].pc = "ready"
    /\ IF job = NULL
         THEN /\ ok
              /\ tasks' = [tasks EXCEPT ![t] = Ended(@, "raised")]
              /\ jobs' = jobs
         ELSE LET mem == [Mem(Val(job)) EXCEPT !.status = Processing] IN
              /\ ok
              /\ jobs' = Persist(jobs, Val(job).id, mem)
              /\ tasks' = [tasks EXCEPT ![t].pc = "generating",
                                        ![t].row = Val(job).id,
                                        ![t].mem = mem]
    /\ response' = NoResponse
    /\ UNCHANGED <<stories, nodes, uuids, observed>>

\* lines 68-75: look the job up; absent, return; else status = "processing" and
\* commit. ok: whether that commit succeeds. A commit that raises leaves the
\* session in need of a rollback, and control in the except block.
Begin(t, ok) ==
    LET job == First(jobs, {i \in DOMAIN jobs : jobs[i].job_id = tasks[t].job_id}) IN
    /\ tasks[t].pc = "ready"
    /\ IF job = NULL
         THEN /\ ok
              /\ tasks' = [tasks EXCEPT ![t] = Ended(@, "done")]
              /\ jobs' = jobs
         ELSE LET mem == [Mem(Val(job)) EXCEPT !.status = Processing] IN
              IF ok
                THEN /\ jobs' = Persist(jobs, Val(job).id, mem)
                     /\ tasks' = [tasks EXCEPT ![t].pc = "generating",
                                               ![t].row = Val(job).id,
                                               ![t].mem = mem]
                ELSE /\ jobs' = jobs
                     /\ tasks' = [tasks EXCEPT ![t].pc = "handler",
                                               ![t].row = Val(job).id,
                                               ![t].mem = mem,
                                               ![t].sessOK = FALSE,
                                               ![t].exc = Some("OperationalError")]
    /\ response' = NoResponse
    /\ UNCHANGED <<stories, nodes, uuids, observed>>

\* line 76, generation succeeds: the story and its whole tree are persisted in
\* one transaction and the story is returned
GenerateStory(t, shape) ==
    LET story == Story(Len(stories) + 1, tasks[t].session_id, tasks[t].theme,
                       Now) IN
    /\ tasks[t].pc = "generating"
    /\ stories' = Append(stories, story)
    /\ nodes' = nodes \o StoryNodes(story.id, shape, Len(nodes))
    /\ tasks' = [tasks EXCEPT ![t].pc = "generated", ![t].story = Some(story.id)]
    /\ response' = NoResponse
    /\ UNCHANGED <<jobs, uuids, observed>>

\* line 76, generation raises: nothing of the story is persisted
GenerateFails(t) ==
    /\ tasks[t].pc = "generating"
    /\ tasks' = [tasks EXCEPT ![t].pc = "handler",
                              ![t].exc = Some("GenerationFailure")]
    /\ response' = NoResponse
    /\ UNCHANGED <<jobs, stories, nodes, uuids, observed>>

\* story_id taken from something other than the story just generated
CompletedMemOtherStory(mem, story, now) ==
    [mem EXCEPT !.story_id = Some(Val(story) + 1), !.status = Completed,
                !.completed_at = Some(now)]

\* lines 77-79: the attributes assigned once generate_story has returned
CompletedMem(mem, story, now) ==
    [mem EXCEPT !.story_id = story, !.status = Completed,
                !.completed_at = Some(now)]

\* lines 77-80. ok: whether the commit of line 80 succeeds
Complete(t, ok) ==
    LET mem == CompletedMem(tasks[t].mem, tasks[t].story, Now) IN
    /\ tasks[t].pc = "generated"
    /\ IF ok
         THEN /\ jobs' = Persist(jobs, tasks[t].row, mem)
              /\ tasks' = [tasks EXCEPT ![t] = Ended(@, "done")]
         ELSE /\ jobs' = jobs
              /\ tasks' = [tasks EXCEPT ![t].pc = "handler", ![t].mem = mem,
                                        ![t].sessOK = FALSE,
                                        ![t].exc = Some("OperationalError")]
    /\ response' = NoResponse
    /\ UNCHANGED <<stories, nodes, uuids, observed>>

\* lines 82-84: the attributes assigned in the except block
FailedMem(mem, exc, now) ==
    [mem EXCEPT !.status = Failed, !.completed_at = Some(now), !.error = exc]

\* the except block rolling nothing back and its commit writing the in-memory
\* job all the same
HandlerCommitsAnyway(sessOK, ok) == ok

\* whether the commit of line 85 goes through: not on a session whose
\* earlier commit raised (it was never rolled back), and not when it fails itself
HandlerCommits(sessOK, ok) == sessOK /\ ok

\* lines 81-87. When the commit of line 85 raises, the exception leaves the task
Handler(t, ok) ==
    LET mem == FailedMem(tasks[t].mem, tasks[t].exc, Now) IN
    /\ tasks[t].pc = "handler"
    /\ IF HandlerCommits(tasks[t].sessOK, ok)
         THEN /\ jobs' = Persist(jobs, tasks[t].row, mem)
              /\ tasks' = [tasks EXCEPT ![t] = Ended(@, "done")]
         ELSE /\ jobs' = jobs
              /\ tasks' = [tasks EXCEPT ![t] = Ended(@, "raised")]
    /\ response' = NoResponse
    /\ UNCHANGED <<stories, nodes, uuids, observed>>

\* ------------------------------------------------------------------ get_job_status
\* the job_id values a client may poll: those of the jobs created so far and
\* the next uuid, which no job has
PollIds == {jobs[i].job_id : i \in DOMAIN jobs} \cup {Uuid(uuids + 1)}

\* what a poller has seen after one more poll
Seen(history, status) ==
    IF history # <<>> /\ history[Len(history)] = status THEN history
    ELSE Append(history, status)

\* the query without its filter on job_id
JobStatusResponseUnfiltered(rows, job_id) ==
    LET job == First(rows, DOMAIN rows) IN
    IF job = NULL
      THEN [op |-> "get_job_status", arg |-> Some(job_id), code |-> 404,
            cookie |-> NULL, set_cookie |-> NULL,
            body |-> [detail |-> "Job not found"]]
      ELSE [op |-> "get_job_status", arg |-> Some(job_id), code |-> 200,
            cookie |-> NULL, set_cookie |-> NULL,
            body |-> StoryJobResponse(Val(job))]

\* lines 24-27: the job of that job_id, or 404
JobStatusResponse(rows, job_id) ==
    LET job == First(rows, {i \in DOMAIN rows : rows[i].job_id = job_id}) IN
    IF job = NULL
      THEN [op |-> "get_job_status", arg |-> Some(job_id), code |-> 404,
            cookie |-> NULL, set_cookie |-> NULL,
            body |-> [detail |-> "Job not found"]]
      ELSE [op |-> "get_job_status", arg |-> Some(job_id), code |-> 200,
            cookie |-> NULL, set_cookie |-> NULL,
            body |-> StoryJobResponse(Val(job))]

\* a poll that stamps the job it reports
get_job_status_touching(job_id) ==
    LET r == JobStatusResponse(jobs, job_id) IN
    /\ response' = r
    /\ observed' = observed
    /\ jobs' = [i \in DOMAIN jobs |->
                  IF jobs[i].job_id = job_id
                    THEN [jobs[i] EXCEPT !.completed_at = Some(Now)]
                    ELSE jobs[i]]
    /\ UNCHANGED <<stories, nodes, tasks, uuids>>

get_job_status(job_id) ==
    LET r == JobStatusResponse(jobs, job_id) IN
    /\ response' = r
    /\ IF r.code = 200 /\ observed.job_id \in {NULL, Some(job_id)}
         THEN observed' = [job_id |-> Some(job_id),
                           statuses |-> Seen(observed.statuses, r.body.status)]
         ELSE observed' = observed
    /\ UNCHANGED <<jobs, stories, nodes, tasks, uuids>>

\* ------------------------------------------------------------------ get_complete_story
\* CompleteStoryNodeResponse(id, content, is_ending, is_winning_ending, options)
CompleteStoryNodeResponse(node) ==
    [id |-> node.id, content |-> node.content, is_ending |-> node.is_ending,
     is_winning_ending |-> node.is_winning_ending, options |-> node.options]

\* node_dict after the loop of lines 110-118: node id -> view; a later row
\* with the same id would replace an earlier one
NodeDict(ns) ==
    [id \in {ns[i].id : i \in DOMAIN ns} |->
        LET last == CHOOSE i \in DOMAIN ns :
                      /\ ns[i].id = id
                      /\ \A k \in DOMAIN ns : ns[k].id = id => k <= i
        IN CompleteStoryNodeResponse(ns[last])]

\* the first node taken for the root, whatever its is_root
RootNodeAnyNode(ns) == First(ns, DOMAIN ns)

\* next((node for node in nodes if node.is_root), None)
RootNode(ns) == First(ns, {i \in DOMAIN ns : ns[i].is_root})

\* an exception no handler catches: the framework answers 500
ServerError(op, arg, what) ==
    [op |-> op, arg |-> arg, code |-> 500, cookie |-> NULL, set_cookie |-> NULL,
     body |-> [detail |-> what]]

\* build_complete_story_tree(db, story); story is None when the query of
\* line 95 found nothing, and story.id then raises AttributeError
build_complete_story_tree(allNodes, story, arg) ==
    IF story = NULL
      THEN ServerError("get_complete_story", arg, "AttributeError")
      ELSE LET ns == All(allNodes, {i \in DOMAIN allNodes :
                                       allNodes[i].story_id = Val(story).id})
               node_dict == NodeDict(ns)
               root_node == RootNode(ns)
           IN IF root_node = NULL
                THEN ServerError("get_complete_story", arg,
                                 "Story root node not found")
                ELSE [op |-> "get_complete_story", arg |-> arg, code |-> 200,
                      cookie |-> NULL, set_cookie |-> NULL,
                      body |-> [id |-> Val(story).id, title |-> Val(story).title,
                                session_id |-> Val(story).session_id,
                                created_at |-> Val(story).created_at,
                                root_node |-> node_dict[Val(root_node).id],
                                all_nodes |-> node_dict]]

\* line 96 tests `not Story`, the model class, not the row `story` just
\* queried: a class is always true, so the 404 branch is never taken
StoryMissing(story) == FALSE

CompleteStoryResponse(allStories, allNodes, story_id) ==
    LET story == First(allStories, {i \in DOMAIN allStories :
                                     allStories[i].id = story_id}) IN
    IF StoryMissing(story)
      THEN [op |-> "get_complete_story", arg |-> Some(story_id), code |-> 404,
            cookie |-> NULL, set_cookie |-> NULL,
            body |-> [detail |-> "Story not found"]]
      ELSE build_complete_story_tree(allNodes, story, Some(story_id))

\* the story_id values a client may ask for: the stories' and the next one
StoryIds == 1..(Len(stories) + 1)

get_complete_story(story_id) ==
    /\ response' = CompleteStoryResponse(stories, nodes, story_id)
    /\ UNCHANGED <<jobs, stories, nodes, tasks, uuids, observed>>

\* ------------------------------------------------------------------ specifications
Init ==
    /\ jobs = <<>> /\ stories = <<>> /\ nodes = <<>> /\ tasks = <<>>
    /\ uuids = 0 /\ observed = [job_id |-> NULL, statuses |-> <<>>]
    /\ response = NoResponse

Next ==
    \/ \E c \in FirstVisit, theme \in Themes : create_story(c, theme)
    \/ \E c \in FirstVisit, theme \in Themes : create_story_fails(c, theme)
    \/ \E t \in DOMAIN tasks, ok \in BOOLEAN : Begin(t, ok)
    \/ \E t \in DOMAIN tasks, shape \in Shapes : GenerateStory(t, shape)
    \/ \E t \in DOMAIN tasks : GenerateFails(t)
    \/ \E t \in DOMAIN tasks, ok \in BOOLEAN : Complete(t, ok)
    \/ \E t \in DOMAIN tasks, ok \in BOOLEAN : Handler(t, ok)
    \/ \E job_id \in PollIds : get_job_status(job_id)
    \/ \E story_id \in StoryIds : get_complete_story(story_id)

Spec == Init /\ [][Next]_vars

\* Story assembly over any content of the stories and story_nodes tables: the
\* tables declare no constraint on is_root; story_id is a foreign key, so
\* every node belongs to a story that exists. Keys are the rows' positions.
InitStories(n) ==
    [i \in 1..n |-> [id |-> i, title |-> "title", session_id |-> "sess",
                     created_at |-> Now]]

InitNode(i, story_id, is_root) ==
    [id |-> i, story_id |-> story_id, content |-> "text", is_root |-> is_root,
     is_ending |-> FALSE, is_winning_ending |-> FALSE, options |-> <<>>]

AssembleInit ==
    /\ jobs = <<>> /\ tasks = <<>> /\ uuids = 0
    /\ observed = [job_id |-> NULL, statuses |-> <<>>]
    /\ response = NoResponse
    /\ \E m \in 0..MaxInitStories :
         /\ stories = InitStories(m)
         /\ \E n \in 0..(IF m = 0 THEN 0 ELSE MaxInitNodes) :
              \E f \in [1..n -> (1..m) \X BOOLEAN] :
                 nodes = [i \in 1..n |-> InitNode(i, f[i][1], f[i][2])]

AssembleNext == \E story_id \in StoryIds : get_complete_story(story_id)

SpecAssemble == AssembleInit /\ [][AssembleNext]_vars

\* Submissions with every kind of session cookie: none, an empty one, a
\* session the service never issued, and the session of an earlier job (a
\* returning client); the tasks run without failures.
SessionCookies == Cookies \cup {Some(jobs[i].session_id) : i \in DOMAIN jobs}

SessionNext ==
    \/ \E c \in SessionCookies, theme \in Themes : create_story(c, theme)
    \/ \E t \in DOMAIN tasks : Begin(t, TRUE)
    \/ \E t \in DOMAIN tasks, shape \in Shapes : GenerateStory(t, shape)
    \/ \E t \in DOMAIN tasks : Complete(t, TRUE)

SpecSession == Init /\ [][SessionNext]_vars

\* generate_story_task called with a job_id: what the background tasks do for
\* create_story, here for a job_id that no job has
MissingJobIds == {"no-such-job"}

run_task(job_id, session_id, theme) ==
    /\ Len(tasks) < MaxJobs
    /\ tasks' = Append(tasks, Task(job_id, session_id, theme))
    /\ response' = NoResponse
    /\ UNCHANGED <<jobs, stories, nodes, uuids, observed>>

OrphanNext ==
    \/ \E theme \in Themes : create_story(NULL, theme)
    \/ \E job_id \in MissingJobIds, theme \in Themes :
          run_task(job_id, "sess", theme)
    \/ \E t \in DOMAIN tasks, ok \in BOOLEAN : Begin(t, ok)
    \/ \E t \in DOMAIN tasks, shape \in Shapes : GenerateStory(t, shape)
    \/ \E t \in DOMAIN tasks : GenerateFails(t)
    \/ \E t \in DOMAIN tasks, ok \in BOOLEAN : Complete(t, ok)
    \/ \E t \in DOMAIN tasks, ok \in BOOLEAN : Handler(t, ok)

SpecOrphan == Init /\ [][OrphanNext]_vars

\* ------------------------------------------------------------------ properties
StatusEnum == {"pending", "processing", "completed", "failed"}

\* the row a job_id names
JobRows(job_id) == {i \in DOMAIN jobs : jobs[i].job_id = job_id}
\* the task that was scheduled for a row's job
TasksOf(i) == {t \in DOMAIN tasks : tasks[t].job_id = jobs[i].job_id}

\* s is a subsequence of t: s embeds in t in order
RECURSIVE IsSubseq(_, _)
IsSubseq(s, t) ==
    IF s = <<>> THEN TRUE
    ELSE IF t = <<>> THEN FALSE
    ELSE IF Head(s) = Head(t) THEN IsSubseq(Tail(s), Tail(t))
    ELSE IsSubseq(s, Tail(t))

\* C1: the statuses successive polls of a job return form a subsequence of
\* (pending, processing, completed) or of (pending, processing, failed).
C1_PolledStatusesFollowLifecycle ==
    \/ IsSubseq(observed.statuses, <<"pending", "processing", "completed">>)
    \/ IsSubseq(observed.statuses, <<"pending", "processing", "failed">>)

\* C2: every persisted job status is one of pending, processing, completed,
\* failed.
C2_StatusInEnum == \A i \in DOMAIN jobs : jobs[i].status \in StatusEnum

\* C3: a job whose task has run to its end after persisting `processing` has
\* the persisted status completed or failed.
C3_EndedTaskLeavesTerminalStatus ==
    \A i \in DOMAIN jobs :
        (/\ \A t \in TasksOf(i) : tasks[t].pc \in {"done", "raised"}
         /\ jobs[i].status # "pending")
        => jobs[i].status \in {"completed", "failed"}

\* C4: in every persisted state a job's story_id is set if and only if its
\* status is completed, also after a completing commit that failed once
\* story_id had been assigned in memory.
C4_StoryIdIffCompleted ==
    \A i \in DOMAIN jobs : (jobs[i].story_id # NULL) <=> (jobs[i].status = "completed")

\* a task is in its except block because the commit of line 80 raised, with
\* story_id assigned on its in-memory job, the persisted row has none, and
\* another job is persisted completed with its story_id
C4_Witness ==
    /\ \E t \in DOMAIN tasks :
          /\ tasks[t].pc = "handler"
          /\ tasks[t].mem.story_id # NULL
          /\ jobs[tasks[t].row].story_id = NULL
    /\ \E i \in DOMAIN jobs :
          jobs[i].status = "completed" /\ jobs[i].story_id # NULL

\* C5: a persisted job's error is set if and only if its status is failed, and
\* a failed job has no story_id.
C5_ErrorIffFailed ==
    \A i \in DOMAIN jobs :
        /\ (jobs[i].error # NULL) <=> (jobs[i].status = "failed")
        /\ jobs[i].status = "failed" => jobs[i].story_id = NULL

\* C6: the response of create_story carries status pending and no story_id,
\* completed_at or error, and when it is produced the task of that job has
\* not started and the persisted job is still pending.
C6_SubmitReturnsPendingBeforeWorker ==
    (response.op = "create_story" /\ response.code = 200) =>
        /\ response.body.status = "pending"
        /\ response.body.story_id = NULL
        /\ response.body.completed_at = NULL
        /\ response.body.error = NULL
        /\ \A i \in JobRows(response.body.job_id) :
              /\ jobs[i].status = "pending"
              /\ \A t \in TasksOf(i) : tasks[t].pc = "ready"
        /\ JobRows(response.body.job_id) # {}

\* create_story answers while the generation of an earlier job is under way
C6_Witness ==
    /\ response.op = "create_story"
    /\ response.code = 200
    /\ \E t \in DOMAIN tasks : tasks[t].pc = "generating"
    /\ \E t \in DOMAIN tasks :
          tasks[t].job_id = response.body.job_id /\ tasks[t].pc = "ready"

\* the story_nodes rows of a story
NodesOf(story_id) == {k \in DOMAIN nodes : nodes[k].story_id = story_id}

\* C7: every job persisted completed has a story_id, and assembling that
\* story succeeds, with the story's one root node and all of its nodes.
C7_CompletedJobAssembles ==
    \A i \in DOMAIN jobs :
        jobs[i].status = "completed" =>
            /\ jobs[i].story_id # NULL
            /\ LET sid == Val(jobs[i].story_id)
                   r == CompleteStoryResponse(stories, nodes, sid)
                   roots == {k \in NodesOf(sid) : nodes[k].is_root}
               IN /\ \E k \in DOMAIN stories : stories[k].id = sid
                  /\ NodesOf(sid) # {}
                  /\ Cardinality(roots) = 1
                  /\ r.code = 200
                  /\ r.body.id = sid
                  /\ \A k \in roots : r.body.root_node.id = nodes[k].id
                  /\ DOMAIN r.body.all_nodes = {nodes[k].id : k \in NodesOf(sid)}

\* a job is completed with a story whose root was written last, while the
\* story of another job is written and that job is still processing
C7_Witness ==
    \E i, j \in DOMAIN jobs :
        /\ jobs[i].status = "completed"
        /\ nodes[CHOOSE k \in NodesOf(Val(jobs[i].story_id)) : nodes[k].is_root].id
             > Val(jobs[i].story_id)
        /\ jobs[j].status = "processing"
        /\ \E t \in TasksOf(j) : tasks[t].pc = "generated"

\* C8: get_complete_story for a story_id no story has answers 404 "Story not
\* found".
C8_UnknownStoryIsNotFound ==
    (/\ response.op = "get_complete_story"
     /\ \A k \in DOMAIN stories : stories[k].id # Val(response.arg))
    => (response.code = 404 /\ response.body.detail = "Story not found")

\* C9: get_complete_story for an existing story none of whose nodes is a root
\* answers 500 "Story root node not found", never a tree.
C9_RootlessStoryIsServerError ==
    (/\ response.op = "get_complete_story"
     /\ \E k \in DOMAIN stories : stories[k].id = Val(response.arg)
     /\ \A k \in NodesOf(Val(response.arg)) : ~nodes[k].is_root)
    => (response.code = 500 /\ response.body.detail = "Story root node not found")

\* the story asked for exists and has nodes, none of them a root, while a
\* node of another story is a root
C9_Witness ==
    /\ response.op = "get_complete_story"
    /\ \E k \in DOMAIN stories : stories[k].id = Val(response.arg)
    /\ NodesOf(Val(response.arg)) # {}
    /\ \A k \in NodesOf(Val(response.arg)) : ~nodes[k].is_root
    /\ \E k \in DOMAIN nodes : nodes[k].is_root

\* C10: get_job_status answers 404 for a job_id no job has, and otherwise 200
\* with the persisted job_id, status, created_at, story_id, completed_at and
\* error of the job of that job_id.
C10_PollReturnsPersistedJob ==
    response.op = "get_job_status" =>
        IF JobRows(Val(response.arg)) = {}
          THEN response.code = 404
          ELSE /\ response.code = 200
               /\ \A i \in JobRows(Val(response.arg)) :
                     /\ response.body.job_id = jobs[i].job_id
                     /\ response.body.status = jobs[i].status
                     /\ response.body.created_at = jobs[i].created_at
                     /\ response.body.story_id = jobs[i].story_id
                     /\ response.body.completed_at = jobs[i].completed_at
                     /\ response.body.error = jobs[i].error

\* the second job is polled and is returned with its story_id, while the
\* first job is in another state
C10_Witness ==
    /\ response.op = "get_job_status"
    /\ response.code = 200
    /\ Len(jobs) = 2
    /\ response.body.job_id = jobs[2].job_id
    /\ response.body.story_id # NULL
    /\ jobs[1].status # jobs[2].status

\* the session identifiers in use: those of the jobs other than the rows
\* given, of the stories, and the one clients present unissued
SessionsInUse(rows) ==
    {jobs[j].session_id : j \in DOMAIN jobs \ rows}
        \cup {stories[k].session_id : k \in DOMAIN stories}
        \cup {"sess", ""}

\* C11: on every create_story the session stored on the new job, the one
\* passed to its task and the one set in the response cookie are the same
\* value: the cookie presented when there is a non-empty one, else a new
\* identifier that no job, story or client uses.
C11_OneSessionPerSubmission ==
    (response.op = "create_story" /\ response.code = 200) =>
        LET sid == Val(response.set_cookie)
            rows == JobRows(response.body.job_id)
        IN /\ response.set_cookie # NULL
           /\ rows # {}
           /\ \A i \in rows :
                 /\ jobs[i].session_id = sid
                 /\ TasksOf(i) # {}
                 /\ \A t \in TasksOf(i) : tasks[t].session_id = sid
           /\ IF response.cookie # NULL /\ Val(response.cookie) # ""
                THEN sid = Val(response.cookie)
                ELSE sid \notin SessionsInUse(rows)

\* a second submission presents an empty cookie after a first one was given a
\* minted session, whose story is already written
C11_Witness ==
    /\ response.op = "create_story"
    /\ response.code = 200
    /\ response.cookie = Some("")
    /\ Len(jobs) = 2
    /\ jobs[1].session_id \notin {"sess", ""}
    /\ Len(stories) = 1

\* the job_id column of a table of jobs or of the tasks scheduled
JobIdsOf(rows) == [i \in DOMAIN rows |-> rows[i].job_id]

\* C12: the Job rows, the successful create_story submissions and the tasks
\* scheduled are equally many: a successful create_story adds one job, with a
\* job_id no other job has, and one task for that job_id; no other step adds
\* or removes a job or a task.
C12_OneJobAndOneTaskPerSubmission ==
    [][/\ Len(jobs) = Len(tasks)
       /\ IF response'.op = "create_story" /\ response'.code = 200
            THEN /\ JobIdsOf(jobs') = Append(JobIdsOf(jobs), response'.body.job_id)
                 /\ JobIdsOf(tasks') = Append(JobIdsOf(tasks), response'.body.job_id)
                 /\ \A i \in DOMAIN jobs : jobs[i].job_id # response'.body.job_id
            ELSE /\ JobIdsOf(jobs') = JobIdsOf(jobs)
                 /\ JobIdsOf(tasks') = JobIdsOf(tasks)]_vars

\* a second submission succeeds after the task of the first has ended
C12_Witness ==
    /\ response.op = "create_story"
    /\ response.code = 200
    /\ Len(jobs) = 2
    /\ Len(tasks) = 2
    /\ tasks[1].pc = "done"
    /\ jobs[1].job_id # jobs[2].job_id

\* C13: get_job_status and get_complete_story change no Job, Story or Story
\* Node (nor any task), whatever they answer.
C13_ReadsLeaveStoreUnchanged ==
    [][response'.op \in {"get_job_status", "get_complete_story"}
         => /\ jobs' = jobs
            /\ stories' = stories
            /\ nodes' = nodes
            /\ tasks' = tasks]_vars

\* a job is polled and found while the story of another is being generated
C13_Witness ==
    /\ response.op = "get_job_status"
    /\ response.code = 200
    /\ response.body.status = "pending"
    /\ \E t \in DOMAIN tasks : tasks[t].pc = "generating"

\* the statuses a job ends in: the two of the lifecycle and the one the except
\* block writes
TerminalStatuses == {"completed", "failed", Failed}

\* C14: once a job's persisted status is terminal, no step changes any field
\* of that job.
C14_TerminalJobImmutable ==
    [][\A i \in DOMAIN jobs :
          jobs[i].status \in TerminalStatuses => jobs'[i] = jobs[i]]_vars

\* the first job is completed and the second has since gone through its own
\* lifecycle to the end
C14_Witness ==
    /\ Len(jobs) = 2
    /\ jobs[1].status = "completed"
    /\ jobs[2].status = Failed
    /\ tasks[1].pc = "done"
    /\ tasks[2].pc = "done"
    /\ response.op = "get_complete_story"

\* C15: while a task is in generation the job is persisted processing (the
\* commit came first) and a poll returns processing, never pending; a terminal
\* status is persisted only by a task that is past generation and has ended.
C15_ProcessingBracketsGeneration ==
    \A i \in DOMAIN jobs : \A t \in TasksOf(i) :
        /\ tasks[t].pc \in {"generating", "generated"} =>
              /\ jobs[i].status = "processing"
              /\ JobStatusResponse(jobs, tasks[t].job_id).code = 200
              /\ JobStatusResponse(jobs, tasks[t].job_id).body.status = "processing"
        /\ tasks[t].exc = Some("GenerationFailure") => jobs[i].status = "processing"
        /\ jobs[i].status \in TerminalStatuses => tasks[t].pc = "done"
        /\ jobs[i].status = "pending" => tasks[t].story = NULL

\* a poll answers processing for a job whose story is being generated
C15_Witness ==
    /\ response.op = "get_job_status"
    /\ response.code = 200
    /\ response.body.status = "processing"
    /\ \E t \in DOMAIN tasks :
          tasks[t].job_id = response.body.job_id /\ tasks[t].pc = "generating"

\* C16: a task whose job_id no job has ends at once without raising, starts
\* no generation and leaves every Job, Story and Story Node as it was.
C16_TaskWithoutJobAbortsSilently ==
    [][\A t \in DOMAIN tasks :
          (JobRows(tasks[t].job_id) = {} /\ tasks'[t] # tasks[t])
          => /\ tasks[t].pc = "ready"
             /\ tasks'[t].pc = "done"
             /\ jobs' = jobs
             /\ stories' = stories
             /\ nodes' = nodes]_vars

\* a task without a job has ended while the task of an existing job is in
\* generation
C16_Witness ==
    /\ \E t \in DOMAIN tasks :
          JobRows(tasks[t].job_id) = {} /\ tasks[t].pc = "done"
    /\ \E t \in DOMAIN tasks : tasks[t].pc = "generating"

\* C17: a successful assembly returns in all_nodes one entry per story_nodes
\* row of that story, keyed by the node id and holding that node's view, none
\* of another story; root_node is the all_nodes entry of a root node of the
\* story.
C17_AssemblyReturnsTheStorysNodes ==
    (response.op = "get_complete_story" /\ response.code = 200) =>
        LET sid == Val(response.arg) IN
        /\ response.body.id = sid
        /\ DOMAIN response.body.all_nodes = {nodes[k].id : k \in NodesOf(sid)}
        /\ \A k \in NodesOf(sid) :
              response.body.all_nodes[nodes[k].id] =
                  [id |-> nodes[k].id, content |-> nodes[k].content,
                   is_ending |-> nodes[k].is_ending,
                   is_winning_ending |-> nodes[k].is_winning_ending,
                   options |-> nodes[k].options]
        /\ \E k \in NodesOf(sid) :
              /\ nodes[k].is_root
              /\ response.body.root_node = response.body.all_nodes[nodes[k].id]

\* a story of several nodes is assembled while another story has nodes too
C17_Witness ==
    /\ response.op = "get_complete_story"
    /\ response.code = 200
    /\ Cardinality(NodesOf(Val(response.arg))) >= 2
    /\ \E k \in DOMAIN nodes : nodes[k].story_id # Val(response.arg)

\* C18: a persisted job's completed_at is set if and only if its status is
\* completed or failed.
C18_CompletedAtIffTerminal ==
    \A i \in DOMAIN jobs :
        (jobs[i].completed_at # NULL) <=> (jobs[i].status \in {"completed", "failed"})

\* C19: a step changes at most one job, that of the task taking the step, and
\* of it only status, story_id, error and completed_at.
C19_TaskWritesOnlyItsJob ==
    [][\A i \in DOMAIN jobs :
          jobs'[i] # jobs[i] =>
             /\ \E t \in DOMAIN tasks :
                   /\ tasks'[t] # tasks[t]
                   /\ tasks[t].job_id = jobs[i].job_id
                   /\ \A u \in DOMAIN tasks \ {t} : tasks'[u] = tasks[u]
             /\ jobs'[i].id = jobs[i].id
             /\ jobs'[i].job_id = jobs[i].job_id
             /\ jobs'[i].session_id = jobs[i].session_id
             /\ jobs'[i].theme = jobs[i].theme
             /\ jobs'[i].created_at = jobs[i].created_at
             /\ \A k \in DOMAIN jobs \ {i} : jobs'[k] = jobs[k]]_vars

\* two tasks have each written their own job, one while the other was under
\* way: the first job is still processing, the second ended in the except block
C19_Witness ==
    /\ Len(jobs) = 2
    /\ jobs[1].status = "processing"
    /\ tasks[1].pc = "generated"
    /\ jobs[2].status = Failed
    /\ jobs[2].error # NULL
    /\ response = NoResponse
====
